---------------------------- MODULE Spec2Model ----------------------------
(***************************************************************************)
(* Realtime hub of server/server.py: the connection registry (Hub), the    *)
(* message store (MESSAGES) and the three transport adapters (ws_chat,     *)
(* sse/event_gen, ws_signal) plus the REST handlers post_message and       *)
(* dev_reset.                                                              *)
(*                                                                         *)
(* Scheduling model: the server is one asyncio event loop.  A step of the  *)
(* model is the code a coroutine runs between two suspension points.  The  *)
(* suspension points are: websocket.receive_text(), every send_text() (the *)
(* frame is written, or the call raises, and then the coroutine may be     *)
(* suspended), the hand-over of the StreamingResponse to the framework,    *)
(* the generator's yield, request.is_disconnected() and q.get().           *)
(* websocket.accept() suspends too, but the socket is in no registry yet:  *)
(* all that can happen meanwhile is that the peer goes away.  Hub._lock is *)
(* an asyncio.Lock whose critical sections contain no await: acquiring it  *)
(* never suspends, so add_* and remove_* run inside the step that calls    *)
(* them.  Frames reach a socket in the order of the send_text calls.       *)
(***************************************************************************)
EXTENDS Integers, Sequences, FiniteSets, TLC

\* ----------------------------------------------------------------- bounds
MaxFrames == 1   \* inbound frames received over all connections of a run
MaxStored == 202 \* messages of the busy user in the runs of HistorySpec
MaxOther  == 1   \* messages of the other user there
MaxResets == 1   \* resets in the runs of HistorySpec

\* ------------------------------------------------------------ identifiers
Users     == {"alice", "bob"}
Rooms     == {"r1", "r2"}
ChatConns == {"c1", "c2"}
SigConns  == {"s1", "s2", "s3"}
Streams   == {"e1", "e2"}
Posts     == {"p1", "p2"}
Sockets   == ChatConns \cup SigConns
Tasks     == Sockets \cup Streams \cup Posts

\* The clients of a run: how many chat, signaling and push connections
\* and POST requests it sees, and whether the sockets send frames.
Pop(chat, sig, sse, posts, inbound) ==
  [chat |-> chat, sig |-> sig, sse |-> sse, posts |-> posts, inbound |-> inbound]

Populations ==
  { Pop(2, 0, 0, 1, TRUE), Pop(0, 3, 0, 0, TRUE), Pop(1, 1, 1, 0, TRUE),
    Pop(0, 0, 2, 1, TRUE), Pop(2, 0, 1, 1, FALSE), Pop(1, 0, 1, 2, FALSE) }

\* Handles are interchangeable: a handle is used after the one before it
Before(x) ==
  CASE x = "c2" -> "c1"
    [] x = "s2" -> "s1"
    [] x = "s3" -> "s2"
    [] x = "e2" -> "e1"
    [] x = "p2" -> "p1"
    [] OTHER    -> x

\* ------------------------------------------------------ dict primitives
\* A Python dict is a function whose DOMAIN is the set of present keys.
DictGet(d, k, default) == IF k \in DOMAIN d THEN d[k] ELSE default

DictSet(d, k, v) == [x \in DOMAIN d \cup {k} |-> IF x = k THEN v ELSE d[x]]

DictPop(d, k) == [x \in DOMAIN d \ {k} |-> d[x]]

EmptyDict == [x \in {} |-> {}]

\* list.remove(x): drops the first occurrence; ValueError when absent
RECURSIVE ListRemove(_, _)
ListRemove(s, x) ==
  IF s = <<>> THEN <<>>
  ELSE IF Head(s) = x THEN Tail(s)
  ELSE <<Head(s)>> \o ListRemove(Tail(s), x)

ListSet(s) == {s[i] : i \in 1..Len(s)}

\* ------------------------------------------------------------- payloads
\* utc_iso(): the current time, an opaque value
utc_iso == "now"

\* The value of a JSON "data" field
NoData  == [kind |-> "null", v |-> "", echoed |-> FALSE, ts |-> ""]
ObjData == [kind |-> "object", v |-> "d1", echoed |-> FALSE, ts |-> ""]
StrData == [kind |-> "string", v |-> "d2", echoed |-> FALSE, ts |-> ""]

\* A frame or event the server sends: bid names the broadcast it belongs
\* to (0: a direct reply)
Out(type, bid, data, ts) == [type |-> type, bid |-> bid, data |-> data, ts |-> ts]

\* ---------------------------------------------------------------- state
VARIABLES
  pc,          \* position of every handler coroutine
  open,        \* socket -> the server can still write to it
  gone,        \* push stream -> its client has disconnected
  keyOf,       \* task -> the user_id / room_id of its request ("" before)
  cur,         \* chat connection -> data of the "message" frame in hand
  ws_by_user,  \* Hub.ws_by_user
  ws_rooms,    \* Hub.ws_rooms
  sse_queues,  \* Hub.sse_queues (a queue is named by its stream)
  qitems,      \* stream -> content of its asyncio.Queue
  emitted,     \* stream -> data events written to the response so far
  sock,        \* socket -> frames written to it so far
  MESSAGES,    \* the message store
  resp,        \* POST task -> its response
  bc,          \* task -> the broadcast_* call it is suspended in
  bh,          \* every broadcast_* call made so far, by call number
  ended,       \* socket -> why its handler ended
  nframes,     \* inbound frames received so far
  pop,         \* the clients of this run
  lock,        \* Hub._lock: its owner and the tasks waiting for it
  hist,        \* the response of the last GET /api/history/{user_id}
  nreset,      \* dev_reset calls so far
  muts         \* the kinds of Hub access made so far, with the lock state

vars == <<pc, open, gone, keyOf, cur, ws_by_user, ws_rooms, sse_queues,
          qitems, emitted, sock, MESSAGES, resp, bc, bh, ended, nframes, pop, lock, hist, nreset, muts>>

NoBc   == [bid |-> 0, kind |-> "", key |-> "", sender |-> "",
           payload |-> Out("", 0, NoData, ""), pending |-> {}]
NoMsg  == [id |-> 0, ts |-> "", user_id |-> "", role |-> "", text |-> ""]
NoResp == [ok |-> FALSE, detail |-> "", id |-> 0, message |-> NoMsg]
NoHist == [user_id |-> "", messages |-> <<>>]

\* asyncio.Lock(): nobody holds it, nobody waits
LockFree == [owner |-> "", waiters |-> <<>>]

\* An access to the Hub's state: which mapping (or "socket" for a send),
\* what is done, and whether it is inside `async with self._lock`
Access(map, op, locked) == [map |-> map, op |-> op, lock |-> locked]

InitState ==
  /\ pc = [t \in Tasks |-> "idle"]
  /\ open = [s \in Sockets |-> FALSE]
  /\ gone = [e \in Streams |-> FALSE]
  /\ keyOf = [t \in Tasks |-> ""]
  /\ cur = [c \in ChatConns |-> NoData]
  /\ ws_by_user = EmptyDict
  /\ ws_rooms = EmptyDict
  /\ sse_queues = EmptyDict
  /\ qitems = [e \in Streams |-> <<>>]
  /\ emitted = [e \in Streams |-> <<>>]
  /\ sock = [s \in Sockets |-> <<>>]
  /\ MESSAGES = EmptyDict
  /\ resp = [p \in Posts |-> NoResp]
  /\ bc = [t \in Tasks |-> NoBc]
  /\ bh = <<>>
  /\ ended = [s \in Sockets |-> ""]
  /\ nframes = 0
  /\ lock = LockFree
  /\ hist = NoHist
  /\ nreset = 0
  /\ muts = {}

Init == InitState /\ pop \in Populations

\* connections of a kind accepted so far
Used(kind) == Cardinality({t \in kind : pc[t] # "idle"})

\* Keys are interchangeable too: the first user-keyed connection is
\* alice's, the first room is r1.
CanConnect(t, key) ==
  /\ pc[Before(t)] # "idle" \/ Before(t) = t
  /\ t \in ChatConns => Used(ChatConns) < pop.chat
  /\ t \in SigConns => Used(SigConns) < pop.sig
  /\ t \in Streams => Used(Streams) < pop.sse
  /\ t \in SigConns /\ Used(SigConns) = 0 => key = "r1"
  /\ t \notin SigConns /\ Used(ChatConns \cup Streams) = 0 => key = "alice"

\* ------------------------------------------------------------------ Hub
add_ws_user(d, user_id, ws) == DictSet(d, user_id, DictGet(d, user_id, {}) \cup {ws})

\* a removal that drops the whole key
remove_ws_user_key(d, user_id, ws) == DictPop(d, user_id)

remove_ws_user(d, user_id, ws) ==
  LET s == DictGet(d, user_id, {}) \ {ws}
  IN IF s = {} THEN DictPop(d, user_id) ELSE DictSet(d, user_id, s)

add_ws_room(d, room_id, ws) == DictSet(d, room_id, DictGet(d, room_id, {}) \cup {ws})

remove_ws_room(d, room_id, ws) ==
  LET s == DictGet(d, room_id, {}) \ {ws}
  IN IF s = {} THEN DictPop(d, room_id) ELSE DictSet(d, room_id, s)

\* a snapshot of the chat handles of every user
UserRecipientsAll(user_id) == UNION {ws_by_user[u] : u \in DOMAIN ws_by_user}

\* the handles broadcast_to_user iterates over: list(ws_by_user.get(u, []))
UserRecipients(user_id) == DictGet(ws_by_user, user_id, {})

\* broadcast_room without the `if ws is sender: continue`
RoomRecipientsAll(room_id, sender) == DictGet(ws_rooms, room_id, {})

\* the handles broadcast_room sends to: the snapshot minus `ws is sender`
RoomRecipients(room_id, sender) == DictGet(ws_rooms, room_id, {}) \ {sender}

\* a queue loop that stops one queue short
QueueRecipientsShort(user_id) ==
  LET qs == DictGet(sse_queues, user_id, <<>>)
  IN IF qs = <<>> THEN <<>> ELSE SubSeq(qs, 1, Len(qs) - 1)

\* the queues broadcast_to_user iterates over: list(sse_queues.get(u, []))
QueueRecipients(user_id) == DictGet(sse_queues, user_id, <<>>)

\* ws.send_text raises when the socket is closed
SendOk(ws) == open[ws]

Occ(s, x) == Cardinality({i \in 1..Len(s) : s[i] = x})

RECURSIVE Rep(_, _)
Rep(x, n) == IF n = 0 THEN <<>> ELSE <<x>> \o Rep(x, n - 1)

\* where a handler continues when its broadcast_* call returns
Cont(t) == IF t \in Posts THEN "done" ELSE "open"

\* a send loop that gives up at the first failing send
SendStepAbort(t, b, ws, h) ==
  /\ IF SendOk(ws)
       THEN /\ sock' = [sock EXCEPT ![ws] = Append(@, b.payload)]
            /\ UNCHANGED <<ws_by_user, ws_rooms>>
            /\ bh' = h
            /\ muts' = muts \cup {Access("socket", "send", FALSE)}
            /\ bc' = [bc EXCEPT ![t] = [b EXCEPT !.pending = @ \ {ws}]]
       ELSE /\ sock' = sock
            /\ IF b.kind = "user"
                 THEN /\ ws_by_user' = remove_ws_user(ws_by_user, b.key, ws)
                      /\ UNCHANGED ws_rooms
                 ELSE /\ ws_rooms' = remove_ws_room(ws_rooms, b.key, ws)
                      /\ UNCHANGED ws_by_user
            /\ muts' = muts \cup {Access("socket", "send", FALSE),
                                  Access(IF b.kind = "user" THEN "ws_by_user" ELSE "ws_rooms",
                                         "remove", TRUE)}
            /\ bh' = [h EXCEPT ![b.bid].failed = @ \cup {ws}]
            /\ bc' = [bc EXCEPT ![t] = [b EXCEPT !.pending = {}]]
  /\ pc' = [pc EXCEPT ![t] = "bcast"]
  /\ UNCHANGED qitems

\* One iteration of the send loop of broadcast call b, run by task t:
\* send to ws; on failure unregister ws and go on.  h is the call history.
SendStep(t, b, ws, h) ==
  /\ IF SendOk(ws)
       THEN /\ sock' = [sock EXCEPT ![ws] = Append(@, b.payload)]
            /\ UNCHANGED <<ws_by_user, ws_rooms>>
            /\ bh' = h
            /\ muts' = muts \cup {Access("socket", "send", FALSE)}
       ELSE /\ sock' = sock
            /\ IF b.kind = "user"
                 THEN /\ ws_by_user' = remove_ws_user(ws_by_user, b.key, ws)
                      /\ UNCHANGED ws_rooms
                 ELSE /\ ws_rooms' = remove_ws_room(ws_rooms, b.key, ws)
                      /\ UNCHANGED ws_by_user
            /\ muts' = muts \cup {Access("socket", "send", FALSE),
                                  Access(IF b.kind = "user" THEN "ws_by_user" ELSE "ws_rooms",
                                         "remove", TRUE)}
            /\ bh' = [h EXCEPT ![b.bid].failed = @ \cup {ws}]
  /\ bc' = [bc EXCEPT ![t] = [b EXCEPT !.pending = @ \ {ws}]]
  /\ pc' = [pc EXCEPT ![t] = "bcast"]
  /\ UNCHANGED qitems

\* The end of broadcast call b: for broadcast_to_user the queue loop
\* (put_nowait never suspends), then the return to the caller.
FinishStep(t, b, h) ==
  LET qs == IF b.kind = "user" THEN QueueRecipients(b.key) ELSE <<>>
  IN /\ qitems' = [e \in Streams |-> qitems[e] \o Rep(b.payload, Occ(qs, e))]
     /\ bh' = [h EXCEPT ![b.bid].qsnap = ListSet(DictGet(sse_queues, b.key, <<>>)),
                        ![b.bid].done = TRUE]
     /\ bc' = [bc EXCEPT ![t] = NoBc]
     /\ pc' = [pc EXCEPT ![t] = Cont(t)]
     /\ UNCHANGED <<sock, ws_by_user, ws_rooms, muts>>

\* The call of broadcast_to_user / broadcast_room by task t up to its
\* first suspension: snapshot, then the first send (or, with nobody to
\* send to, the rest of the call).
Call(t, kind, key, type, data, ts) ==
  LET bid  == Len(bh) + 1
      snap == IF kind = "user" THEN UserRecipients(key) ELSE RoomRecipients(key, t)
      b    == [bid |-> bid, kind |-> kind, key |-> key, sender |-> t,
               payload |-> Out(type, bid, data, ts), pending |-> snap]
      h    == Append(bh, [kind |-> kind, key |-> key, sender |-> t,
                          payload |-> Out(type, bid, data, ts),
                          snap |-> snap,
                          members |-> IF kind = "user" THEN DictGet(ws_by_user, key, {})
                                      ELSE DictGet(ws_rooms, key, {}),
                          qcall |-> IF kind = "user" THEN ListSet(DictGet(sse_queues, key, <<>>))
                                    ELSE {},
                          live |-> {s \in Sockets : pc[s] \notin {"idle", "done"}},
                          epoch |-> nreset,
                          qsnap |-> {}, failed |-> {}, done |-> FALSE])
  IN IF snap = {} THEN FinishStep(t, b, h)
     ELSE \E ws \in snap : SendStep(t, b, ws, h)

\* a suspended broadcast call resumes
BcastStep(t) ==
  /\ pc[t] = "bcast"
  /\ IF bc[t].pending = {} THEN FinishStep(t, bc[t], bh)
     ELSE \E ws \in bc[t].pending : SendStep(t, bc[t], ws, bh)
  /\ UNCHANGED <<open, gone, keyOf, cur, sse_queues, emitted, MESSAGES, resp,
                 ended, nframes, pop, lock, hist, nreset>>

\* a client closes its socket (or the network drops it)
PeerClose(s) ==
  /\ pc[s] \notin {"idle", "done"}
  /\ open[s]
  /\ open' = [open EXCEPT ![s] = FALSE]
  /\ UNCHANGED <<pc, gone, keyOf, cur, ws_by_user, ws_rooms, sse_queues, qitems,
                 emitted, sock, MESSAGES, resp, bc, bh, ended, nframes, pop, lock, hist, nreset, muts>>

\* ---------------------------------------------------- inbound frames
\* The text of an inbound frame, by the JSON value it denotes ("text":
\* not JSON at all).
ChatFrames ==
  {[shape |-> sh, type |-> "", data |-> NoData] :
      sh \in {"text", "array", "number", "string"}}
  \cup {[shape |-> "object", type |-> ty, data |-> NoData] :
      ty \in {"ping", "other"}}
  \cup {[shape |-> "object", type |-> "message", data |-> d] :
      d \in {ObjData, StrData}}

\* json.loads with the JSONDecodeError fallback of ws_chat
ChatParse(raw) ==
  IF raw.shape = "text"
    THEN [shape |-> "object", type |-> "text",
          data |-> [kind |-> "object", v |-> "raw", echoed |-> FALSE, ts |-> ""]]
    ELSE raw

\* msg.get(...) exists on a dict only
HasGet(msg) == msg.shape = "object"

\* a comparison that never matches
IsPingNever(msg) == msg.type = "PING"

\* mtype == "ping"
IsPing(msg) == msg.type = "ping"

\* {**(data or {}), "echoed": True, "ts": utc_iso()} raises TypeError for a
\* truthy value that is not a mapping
Mergeable(data) == data.kind \in {"null", "object"}

Merge(data) == [kind |-> "object", v |-> data.v, echoed |-> TRUE, ts |-> utc_iso]

WsHello(user_id) ==
  Out("ws_hello", 0, [kind |-> "object", v |-> user_id, echoed |-> FALSE, ts |-> utc_iso], "")

Pong == Out("pong", 0, NoData, utc_iso)

Echo(data) == Out("echo", 0, data, "")

Ack(msg) ==
  Out("ack", 0, [kind |-> "object", v |-> msg.type, echoed |-> FALSE, ts |-> ""], utc_iso)

\* a ws_chat that registers and sends no greeting
ChatGreetingNone(user_id) == <<>>

\* the greeting ws_chat sends right after registering
ChatGreeting(user_id) == <<WsHello(user_id)>>

\* ------------------------------------------------------------ ws_chat
\* websocket.accept(), hub.add_ws_user, then the greeting.  lost: the peer
\* went away right after the handshake, so the greeting send raises and
\* ws_chat is left before its try block.
ChatConnect(c, u, lost) ==
  /\ pc[c] = "idle"
  /\ CanConnect(c, u)
  /\ keyOf' = [keyOf EXCEPT ![c] = u]
  /\ ws_by_user' = add_ws_user(ws_by_user, u, c)
  /\ muts' = muts \cup {Access("ws_by_user", "add", TRUE)}
  /\ IF ~lost
       THEN /\ sock' = [sock EXCEPT ![c] = @ \o ChatGreeting(u)]
            /\ pc' = [pc EXCEPT ![c] = "open"]
            /\ open' = [open EXCEPT ![c] = TRUE]
            /\ UNCHANGED ended
       ELSE /\ pc' = [pc EXCEPT ![c] = "done"]
            /\ ended' = [ended EXCEPT ![c] = "greeting"]
            /\ UNCHANGED <<sock, open>>
  /\ UNCHANGED <<gone, cur, ws_rooms, sse_queues, qitems, emitted,
                 MESSAGES, resp, bc, bh, nframes, pop, lock, hist, nreset>>

\* except clauses that forget to unregister
ChatLeaveKeep(c, why) ==
  /\ UNCHANGED <<ws_by_user, muts>>
  /\ pc' = [pc EXCEPT ![c] = "done"]
  /\ ended' = [ended EXCEPT ![c] = why]

\* the except clauses of ws_chat: unregister, the handler returns and the
\* framework closes the socket
ChatLeave(c, why) ==
  /\ ws_by_user' = remove_ws_user(ws_by_user, keyOf[c], c)
  /\ muts' = muts \cup {Access("ws_by_user", "remove", TRUE)}
  /\ pc' = [pc EXCEPT ![c] = "done"]
  /\ ended' = [ended EXCEPT ![c] = why]

\* a reply on the handler's own socket; a failing send ends in the
\* except clauses
ChatReply(c, frame, next) ==
  IF SendOk(c) THEN /\ sock' = [sock EXCEPT ![c] = Append(@, frame)]
                    /\ pc' = [pc EXCEPT ![c] = next]
                    /\ UNCHANGED <<ws_by_user, ended, muts>>
               ELSE /\ ChatLeave(c, "send")
                    /\ UNCHANGED sock

\* receive_text returns raw (a frame that arrived before the socket was
\* closed is still returned after it): parse, dispatch on type, up to the
\* first send
ChatRecv(c, raw) ==
  /\ pc[c] = "open"
  /\ pop.inbound /\ nframes < MaxFrames
  /\ nframes' = nframes + 1
  /\ LET msg == ChatParse(raw)
     IN IF ~HasGet(msg)
          THEN /\ ChatLeave(c, "fault")
               /\ UNCHANGED <<sock, cur>>
        ELSE IF IsPing(msg)
          THEN /\ ChatReply(c, Pong, "open")
               /\ UNCHANGED cur
        ELSE IF msg.type = "message"
          THEN /\ ChatReply(c, Echo(msg.data), "echoed")
               /\ cur' = [cur EXCEPT ![c] = msg.data]
        ELSE /\ ChatReply(c, Ack(msg), "open")
             /\ UNCHANGED cur
  /\ open' = [open EXCEPT ![c] = @ /\ pc'[c] # "done"]
  /\ UNCHANGED <<gone, keyOf, ws_rooms, sse_queues, qitems, emitted,
                 MESSAGES, resp, bc, bh, pop, lock, hist, nreset>>

\* after the echo: build the payload and call broadcast_to_user
ChatBroadcast(c) ==
  /\ pc[c] = "echoed"
  /\ IF Mergeable(cur[c])
       THEN /\ Call(c, "user", keyOf[c], "message", Merge(cur[c]), "")
            /\ UNCHANGED <<ended, open>>
       ELSE /\ ChatLeave(c, "merge")
            /\ open' = [open EXCEPT ![c] = FALSE]
            /\ UNCHANGED <<sock, ws_rooms, qitems, bc, bh>>
  /\ UNCHANGED <<gone, keyOf, cur, sse_queues, emitted, MESSAGES, resp, nframes,
                 pop, lock, hist, nreset>>

\* receive_text raises WebSocketDisconnect
ChatDisconnect(c) ==
  /\ pc[c] = "open"
  /\ ~open[c]
  /\ ChatLeave(c, "disconnect")
  /\ UNCHANGED <<open, gone, keyOf, cur, ws_rooms, sse_queues, qitems, emitted,
                 sock, MESSAGES, resp, bc, bh, nframes, pop, lock, hist, nreset>>

\* ---------------------------------------------------------- ws_signal
SigFrames ==
  {[shape |-> sh, type |-> "", data |-> NoData, ts |-> ""] : sh \in {"text", "array"}}
  \cup {[shape |-> "object", type |-> "offer", data |-> ObjData, ts |-> t] :
          t \in {"", "t0"}}

\* json.loads with the JSONDecodeError fallback of ws_signal
SigParse(raw) ==
  IF raw.shape = "text"
    THEN [shape |-> "object", type |-> "raw", data |-> StrData, ts |-> ""]
    ELSE raw

\* payload["ts"] = utc_iso()
SetTs(payload) == utc_iso

\* payload.setdefault("ts", utc_iso())
SetDefaultTs(payload) == IF payload.ts = "" THEN utc_iso ELSE payload.ts

SignalHello(room_id) ==
  Out("signal_hello", 0, [kind |-> "object", v |-> room_id, echoed |-> FALSE, ts |-> ""], utc_iso)

\* the greeting ws_signal sends right after registering
SigGreeting(room_id) == <<SignalHello(room_id)>>

\* websocket.accept(), hub.add_ws_room, then the greeting (lost as in
\* ChatConnect)
SigConnect(s, r, lost) ==
  /\ pc[s] = "idle"
  /\ CanConnect(s, r)
  /\ keyOf' = [keyOf EXCEPT ![s] = r]
  /\ ws_rooms' = add_ws_room(ws_rooms, r, s)
  /\ muts' = muts \cup {Access("ws_rooms", "add", TRUE)}
  /\ IF ~lost
       THEN /\ sock' = [sock EXCEPT ![s] = @ \o SigGreeting(r)]
            /\ pc' = [pc EXCEPT ![s] = "open"]
            /\ open' = [open EXCEPT ![s] = TRUE]
            /\ UNCHANGED ended
       ELSE /\ pc' = [pc EXCEPT ![s] = "done"]
            /\ ended' = [ended EXCEPT ![s] = "greeting"]
            /\ UNCHANGED <<sock, open>>
  /\ UNCHANGED <<gone, cur, ws_by_user, sse_queues, qitems, emitted,
                 MESSAGES, resp, bc, bh, nframes, pop, lock, hist, nreset>>

\* the except clauses of ws_signal
SigLeave(s, why) ==
  /\ ws_rooms' = remove_ws_room(ws_rooms, keyOf[s], s)
  /\ muts' = muts \cup {Access("ws_rooms", "remove", TRUE)}
  /\ pc' = [pc EXCEPT ![s] = "done"]
  /\ ended' = [ended EXCEPT ![s] = why]
  /\ open' = [open EXCEPT ![s] = FALSE]

\* receive_text returns raw: parse, stamp, call broadcast_room
SigRecv(s, raw) ==
  /\ pc[s] = "open"
  /\ pop.inbound /\ nframes < MaxFrames
  /\ nframes' = nframes + 1
  /\ LET payload == SigParse(raw)
     IN IF payload.shape = "object"
          THEN /\ Call(s, "room", keyOf[s], payload.type, payload.data,
                       SetDefaultTs(payload))
               /\ UNCHANGED <<ended, open>>
          ELSE /\ SigLeave(s, "fault")
               /\ UNCHANGED <<sock, ws_by_user, qitems, bc, bh>>
  /\ UNCHANGED <<gone, keyOf, cur, sse_queues, emitted, MESSAGES, resp, pop, lock, hist, nreset>>

SigDisconnect(s) ==
  /\ pc[s] = "open"
  /\ ~open[s]
  /\ SigLeave(s, "disconnect")
  /\ UNCHANGED <<gone, keyOf, cur, ws_by_user, sse_queues, qitems, emitted,
                 sock, MESSAGES, resp, bc, bh, nframes, pop, lock, hist, nreset>>

\* ------------------------------------------------------ sse / event_gen
SseHello == Out("sse_hello", 0, [kind |-> "object", v |-> "connected", echoed |-> FALSE, ts |-> utc_iso], "")

\* the handler sse(): create q, append it, hand the generator over
Sse(e, u) ==
  /\ pc[e] = "idle"
  /\ CanConnect(e, u)
  /\ sse_queues' = DictSet(sse_queues, u, Append(DictGet(sse_queues, u, <<>>), e))
  /\ muts' = muts \cup {Access("sse_queues", "add", FALSE)}
  /\ pc' = [pc EXCEPT ![e] = "created"]
  /\ keyOf' = [keyOf EXCEPT ![e] = u]
  /\ UNCHANGED <<open, gone, cur, ws_by_user, ws_rooms, qitems, emitted, sock,
                 MESSAGES, resp, bc, bh, ended, nframes, pop, lock, hist, nreset>>

\* the client of a push stream disconnects
SsePeerClose(e) ==
  /\ pc[e] \notin {"idle", "closed"}
  /\ ~gone[e]
  /\ gone' = [gone EXCEPT ![e] = TRUE]
  /\ UNCHANGED <<pc, open, keyOf, cur, ws_by_user, ws_rooms, sse_queues, qitems,
                 emitted, sock, MESSAGES, resp, bc, bh, ended, nframes, pop, lock, hist, nreset, muts>>

\* first iteration of event_gen: q.put(hello), then into the try block
SseStart(e) ==
  /\ pc[e] = "created"
  /\ qitems' = [qitems EXCEPT ![e] = Append(@, SseHello)]
  /\ pc' = [pc EXCEPT ![e] = "get"]
  /\ UNCHANGED <<open, gone, keyOf, cur, ws_by_user, ws_rooms, sse_queues, emitted,
                 sock, MESSAGES, resp, bc, bh, ended, nframes, pop, lock, hist, nreset, muts>>

\* the response ends before the framework has iterated the generator:
\* the body of event_gen, its finally included, never runs
SseAbort(e) ==
  /\ pc[e] = "created"
  /\ gone[e]
  /\ pc' = [pc EXCEPT ![e] = "closed"]
  /\ UNCHANGED <<open, gone, keyOf, cur, ws_by_user, ws_rooms, sse_queues, qitems,
                 emitted, sock, MESSAGES, resp, bc, bh, ended, nframes, pop, lock, hist, nreset, muts>>

\* q.get() returns an item: yield it as a data event
SseGet(e) ==
  /\ pc[e] = "get"
  /\ qitems[e] # <<>>
  /\ emitted' = [emitted EXCEPT ![e] = Append(@, Head(qitems[e]))]
  /\ qitems' = [qitems EXCEPT ![e] = Tail(@)]
  /\ pc' = [pc EXCEPT ![e] = "yielded"]
  /\ UNCHANGED <<open, gone, keyOf, cur, ws_by_user, ws_rooms, sse_queues, sock,
                 MESSAGES, resp, bc, bh, ended, nframes, pop, lock, hist, nreset, muts>>

\* 25 s without an item: yield a keepalive comment (not a data event)
SseKeepalive(e) ==
  /\ pc[e] = "get"
  /\ qitems[e] = <<>>
  /\ pc' = [pc EXCEPT ![e] = "yielded"]
  /\ UNCHANGED <<open, gone, keyOf, cur, ws_by_user, ws_rooms, sse_queues, qitems,
                 emitted, sock, MESSAGES, resp, bc, bh, ended, nframes, pop, lock, hist, nreset, muts>>

\* the finally block of event_gen: hub.sse_queues[user_id].remove(q)
Unsubscribe(d, user_id, q) == DictSet(d, user_id, ListRemove(DictGet(d, user_id, <<>>), q))

\* after the yield: request.is_disconnected() -> break -> finally
SseCheck(e) ==
  /\ pc[e] = "yielded"
  /\ IF gone[e]
       THEN /\ sse_queues' = Unsubscribe(sse_queues, keyOf[e], e)
            /\ muts' = muts \cup {Access("sse_queues", "remove", FALSE)}
            /\ pc' = [pc EXCEPT ![e] = "closed"]
       ELSE /\ pc' = [pc EXCEPT ![e] = "get"]
            /\ UNCHANGED <<sse_queues, muts>>
  /\ UNCHANGED <<open, gone, keyOf, cur, ws_by_user, ws_rooms, qitems, emitted,
                 sock, MESSAGES, resp, bc, bh, ended, nframes, pop, lock, hist, nreset>>

\* the response task is cancelled while event_gen waits in q.get():
\* the exception leaves the try block through finally
SseCancel(e) ==
  /\ pc[e] = "get"
  /\ gone[e]
  /\ sse_queues' = Unsubscribe(sse_queues, keyOf[e], e)
  /\ muts' = muts \cup {Access("sse_queues", "remove", FALSE)}
  /\ pc' = [pc EXCEPT ![e] = "closed"]
  /\ UNCHANGED <<open, gone, keyOf, cur, ws_by_user, ws_rooms, qitems, emitted,
                 sock, MESSAGES, resp, bc, bh, ended, nframes, pop, lock, hist, nreset>>

\* ------------------------------------------------------- REST handlers
\* get_history returns at most this many messages
HistoryLimit == 200

\* s[:n]: the first n elements
First(s, n) == SubSeq(s, 1, IF Len(s) < n THEN Len(s) ELSE n)

\* s[-n:]: the last n elements, all of s when it has fewer
Last(s, n) == SubSeq(s, (IF Len(s) < n THEN 0 ELSE Len(s) - n) + 1, Len(s))

\* the "messages" of the response of get_history against the store d
get_history(d, user_id) == Last(DictGet(d, user_id, <<>>), HistoryLimit)

\* GET /api/history/{user_id}
GetHistory(u) ==
  /\ hist' = [user_id |-> u, messages |-> get_history(MESSAGES, u)]
  /\ UNCHANGED <<pc, open, gone, keyOf, cur, ws_by_user, ws_rooms, sse_queues,
                 qitems, emitted, sock, MESSAGES, resp, bc, bh, ended, nframes,
                 pop, lock, nreset, muts>>

\* str.strip() on the strings the requests use
Strip(s) ==
  CASE s = " bob " -> "bob"
    [] s = "  "    -> ""
    [] OTHER       -> s

\* The value of the "role" field of a request body (null: absent)
NoRole  == [kind |-> "null", v |-> ""]
StrRole == [kind |-> "string", v |-> "assistant"]
NumRole == [kind |-> "number", v |-> "5"]

PostBodies ==
  { [user_id |-> "alice", text |-> "hi",  role |-> NoRole],
    [user_id |-> " bob ", text |-> "hi",  role |-> StrRole],
    [user_id |-> "",      text |-> "hi",  role |-> NoRole],
    [user_id |-> "alice", text |-> "  ",  role |-> NoRole],
    [user_id |-> "",      text |-> "hi",  role |-> NumRole] }

\* (payload.get("role") or "user").strip() raises AttributeError for a
\* truthy value that is not a string
HasStrip(role) == role.kind \in {"null", "string"}

\* a default role other than "user"
RoleOfGuest(body) == Strip(IF body.role.kind = "null" THEN "guest" ELSE body.role.v)

\* (payload.get("role") or "user").strip()
RoleOf(body) == Strip(IF body.role.kind = "null" THEN "user" ELSE body.role.v)

\* a store that puts the new message first
append_message_front(d, user_id, msg) == DictSet(d, user_id, <<msg>> \o DictGet(d, user_id, <<>>))

\* MESSAGES[user_id].append(msg)
append_message(d, user_id, msg) == DictSet(d, user_id, Append(DictGet(d, user_id, <<>>), msg))

\* post_message up to the first suspension of broadcast_to_user
PostMessage(p, body) ==
  /\ pc[p] = "idle"
  /\ pc[Before(p)] # "idle" \/ Before(p) = p
  /\ Used(Posts) < pop.posts
  /\ LET user_id == Strip(body.user_id)
         text    == Strip(body.text)
         msg     == [id |-> Used(Posts) + 1, ts |-> utc_iso, user_id |-> user_id,
                     role |-> RoleOf(body), text |-> text]
     IN IF ~HasStrip(body.role)
          THEN /\ resp' = [resp EXCEPT ![p] =
                             [ok |-> FALSE, detail |-> "Internal Server Error", id |-> 0,
                              message |-> NoMsg]]
               /\ pc' = [pc EXCEPT ![p] = "done"]
               /\ UNCHANGED <<MESSAGES, keyOf, sock, ws_by_user, ws_rooms, qitems, bc, bh, muts>>
        ELSE IF user_id = "" \/ text = ""
          THEN /\ resp' = [resp EXCEPT ![p] =
                             [ok |-> FALSE, detail |-> "user_id and text are required", id |-> 0,
                              message |-> NoMsg]]
               /\ pc' = [pc EXCEPT ![p] = "done"]
               /\ UNCHANGED <<MESSAGES, keyOf, sock, ws_by_user, ws_rooms, qitems, bc, bh, muts>>
          ELSE /\ MESSAGES' = append_message(MESSAGES, user_id, msg)
               /\ keyOf' = [keyOf EXCEPT ![p] = user_id]
               /\ resp' = [resp EXCEPT ![p] =
                             [ok |-> TRUE, detail |-> "", id |-> msg.id, message |-> msg]]
               /\ Call(p, "user", user_id, "message", msg, "")
  /\ UNCHANGED <<open, gone, cur, sse_queues, emitted, ended, nframes, pop, lock, hist, nreset>>

\* MESSAGES.clear() that forgets one user
clear_but_one(d) == IF DOMAIN d = {} THEN d ELSE DictPop(d, CHOOSE k \in DOMAIN d : TRUE)

\* MESSAGES.clear()
clear(d) == EmptyDict

\* dev_reset
Reset ==
  /\ MESSAGES # EmptyDict
  /\ MESSAGES' = clear(MESSAGES)
  /\ nreset' = nreset + 1
  /\ UNCHANGED <<pc, open, gone, keyOf, cur, ws_by_user, ws_rooms, sse_queues,
                 qitems, emitted, sock, resp, bc, bh, ended, nframes, pop, lock, hist, muts>>

\* ------------------------------------------------------- specification
Next ==
  \/ \E c \in ChatConns, u \in Users, lost \in BOOLEAN : ChatConnect(c, u, lost)
  \/ \E c \in ChatConns, raw \in ChatFrames : ChatRecv(c, raw)
  \/ \E c \in ChatConns : ChatBroadcast(c)
  \/ \E c \in ChatConns : ChatDisconnect(c)
  \/ \E s \in SigConns, r \in Rooms, lost \in BOOLEAN : SigConnect(s, r, lost)
  \/ \E s \in SigConns, raw \in SigFrames : SigRecv(s, raw)
  \/ \E s \in SigConns : SigDisconnect(s)
  \/ \E s \in Sockets : PeerClose(s)
  \/ \E e \in Streams, u \in Users : Sse(e, u)
  \/ \E e \in Streams : SsePeerClose(e)
  \/ \E e \in Streams : SseStart(e)
  \/ \E e \in Streams : SseAbort(e)
  \/ \E e \in Streams : SseGet(e)
  \/ \E e \in Streams : SseKeepalive(e)
  \/ \E e \in Streams : SseCheck(e)
  \/ \E e \in Streams : SseCancel(e)
  \/ \E p \in Posts, body \in PostBodies : PostMessage(p, body)
  \/ \E t \in Tasks : BcastStep(t)
  \/ Reset

Spec == Init /\ [][Next]_vars

\* ------------------------------------------------- the store on its own
\* The message store under any number of POSTs: nobody is connected, so
\* every broadcast_to_user call finds no recipient and returns at once
\* (the call history bh is not kept here).
HistoryInit == InitState /\ pop = Pop(0, 0, 0, 0, FALSE)

StoredMax(u) == IF u = "alice" THEN MaxStored ELSE MaxOther

\* a successful post_message for user u: the k-th message appended for u
\* since the last reset has id k
HistoryPost(u) ==
  LET k == Len(DictGet(MESSAGES, u, <<>>)) + 1
  IN /\ k <= StoredMax(u)
     /\ MESSAGES' = append_message(MESSAGES, u,
                       [id |-> k, ts |-> utc_iso, user_id |-> u,
                        role |-> "user", text |-> "hi"])
     /\ UNCHANGED <<pc, open, gone, keyOf, cur, ws_by_user, ws_rooms, sse_queues,
                    qitems, emitted, sock, resp, bc, bh, ended, nframes, pop, lock,
                    hist, nreset, muts>>

HistoryReset == nreset < MaxResets /\ Reset

HistoryNext ==
  \/ \E u \in Users : HistoryPost(u)
  \/ \E u \in Users : GetHistory(u)
  \/ HistoryReset

HistorySpec == HistoryInit /\ [][HistoryNext]_vars

\* ------------------------------------------------------- the Hub lock
\* The lock protocol of the Hub on its own.  `async with self._lock` is
\* `await self._lock.acquire()`, the body, then release(): here a task may
\* be switched out at every await, the acquire included even when the
\* lock is free (the event loop only switches when the acquire has to
\* wait, so its runs are among these).  Positions: "add" / "remove" /
\* "bremove": in add_ws_*, in the handler's own remove_ws_*, in the
\* remove_ws_* of a broadcast after a failed send, from the acquire to the
\* release; "open": in receive_text; "bcast": in the send loop.
LockPopulations == { Pop(2, 0, 0, 1, TRUE), Pop(0, 3, 0, 0, TRUE) }

LockInit == InitState /\ pop \in LockPopulations

LockRest == <<gone, cur, sse_queues, qitems, emitted, sock, MESSAGES, resp, bh,
              ended, hist, nreset, muts, pop>>

\* asyncio.Lock.acquire(): taken at once when it is free and nobody
\* waits, otherwise the caller queues behind the others
acquire(l, t) ==
  IF l.owner = "" /\ l.waiters = <<>> THEN [l EXCEPT !.owner = t]
  ELSE [l EXCEPT !.waiters = Append(@, t)]

\* asyncio.Lock.release(): the first waiter is woken
release(l) == [l EXCEPT !.owner = ""]

\* t holds the lock it asked for
Granted(t) == lock.owner = t /\ t \notin ListSet(lock.waiters)

\* every Hub method takes the lock
HoldsLockAlways(op) == TRUE

\* the Hub methods whose body is inside `async with self._lock`
HoldsLock(op) == op \in {"add_ws_user", "remove_ws_user", "add_ws_room", "remove_ws_room"}

\* list(S): the elements of a set in some order
Orders(S) == {q \in [1..Cardinality(S) -> S] : \A i, j \in DOMAIN q : q[i] = q[j] => i = j}

\* the registry that the calls of task t are about
OnRooms(t) == t \in SigConns

\* the broadcast method that task t calls
Bop(t) == IF OnRooms(t) THEN "broadcast_room" ELSE "broadcast_to_user"

\* a connection is accepted and its handler calls add_ws_user / add_ws_room
LockConnect(t, key) ==
  /\ pc[t] = "idle"
  /\ CanConnect(t, key)
  /\ key \in (IF OnRooms(t) THEN Rooms ELSE Users)
  /\ keyOf' = [keyOf EXCEPT ![t] = key]
  /\ open' = [open EXCEPT ![t] = TRUE]
  /\ pc' = [pc EXCEPT ![t] = "add"]
  /\ lock' = acquire(lock, t)
  /\ UNCHANGED <<ws_by_user, ws_rooms, bc, nframes>>
  /\ UNCHANGED LockRest

\* the released lock goes to the first waiter
LockWake(t) ==
  /\ lock.owner = "" /\ lock.waiters # <<>> /\ Head(lock.waiters) = t
  /\ lock' = [owner |-> t, waiters |-> Tail(lock.waiters)]
  /\ UNCHANGED <<pc, open, keyOf, ws_by_user, ws_rooms, bc, nframes>>
  /\ UNCHANGED LockRest

\* the body of add_ws_*, the release, and on to receive_text
LockAdd(t) ==
  /\ pc[t] = "add" /\ Granted(t)
  /\ IF OnRooms(t)
       THEN ws_rooms' = add_ws_room(ws_rooms, keyOf[t], t) /\ UNCHANGED ws_by_user
       ELSE ws_by_user' = add_ws_user(ws_by_user, keyOf[t], t) /\ UNCHANGED ws_rooms
  /\ lock' = release(lock)
  /\ pc' = [pc EXCEPT ![t] = "open"]
  /\ UNCHANGED <<open, keyOf, bc, nframes>>
  /\ UNCHANGED LockRest

\* receive_text raises: the except clause calls remove_ws_*
LockDisconnect(t) ==
  /\ pc[t] = "open" /\ ~open[t]
  /\ pc' = [pc EXCEPT ![t] = "remove"]
  /\ lock' = acquire(lock, t)
  /\ UNCHANGED <<open, keyOf, ws_by_user, ws_rooms, bc, nframes>>
  /\ UNCHANGED LockRest

\* the body of the handler's remove_ws_*, the release, the handler returns
LockRemove(t) ==
  /\ pc[t] = "remove" /\ Granted(t)
  /\ IF OnRooms(t)
       THEN ws_rooms' = remove_ws_room(ws_rooms, keyOf[t], t) /\ UNCHANGED ws_by_user
       ELSE ws_by_user' = remove_ws_user(ws_by_user, keyOf[t], t) /\ UNCHANGED ws_rooms
  /\ lock' = release(lock)
  /\ pc' = [pc EXCEPT ![t] = "done"]
  /\ UNCHANGED <<open, keyOf, bc, nframes>>
  /\ UNCHANGED LockRest

\* a POST for user key, or a frame to relay on a socket: the call of
\* broadcast_to_user / broadcast_room, which lists the handles to send to
LockBroadcast(t, key) ==
  /\ \/ /\ t \in Posts /\ pc[t] = "idle" /\ Used(Posts) < pop.posts
        /\ pc[Before(t)] # "idle" \/ Before(t) = t
        /\ key \in Users
        /\ UNCHANGED nframes
     \/ /\ t \in Sockets /\ pc[t] = "open" /\ key = keyOf[t]
        /\ pop.inbound /\ nframes < MaxFrames
        /\ nframes' = nframes + 1
  /\ keyOf' = [keyOf EXCEPT ![t] = key]
  /\ \E q \in Orders(IF OnRooms(t) THEN RoomRecipients(key, t) ELSE UserRecipients(key)) :
       bc' = [bc EXCEPT ![t] = [NoBc EXCEPT !.key = key, !.sender = t, !.pending = q]]
  /\ pc' = [pc EXCEPT ![t] = "bcast"]
  /\ lock' = IF HoldsLock(Bop(t)) THEN acquire(lock, t) ELSE lock
  /\ UNCHANGED <<open, ws_by_user, ws_rooms>>
  /\ UNCHANGED LockRest

\* one send of the loop: on failure the call of remove_ws_*
LockSend(t) ==
  /\ pc[t] = "bcast" /\ bc[t].pending # <<>>
  /\ HoldsLock(Bop(t)) => Granted(t)
  /\ IF SendOk(Head(bc[t].pending))
       THEN /\ bc' = [bc EXCEPT ![t].pending = Tail(@)]
            /\ UNCHANGED <<pc, lock>>
       ELSE /\ pc' = [pc EXCEPT ![t] = "bremove"]
            /\ lock' = acquire(lock, t)
            /\ UNCHANGED bc
  /\ UNCHANGED <<open, keyOf, ws_by_user, ws_rooms, nframes>>
  /\ UNCHANGED LockRest

\* the body of the remove_ws_* of the send loop, the release, back to
\* the loop
LockBroadcastRemove(t) ==
  /\ pc[t] = "bremove" /\ Granted(t)
  /\ IF OnRooms(t)
       THEN /\ ws_rooms' = remove_ws_room(ws_rooms, bc[t].key, Head(bc[t].pending))
            /\ UNCHANGED ws_by_user
       ELSE /\ ws_by_user' = remove_ws_user(ws_by_user, bc[t].key, Head(bc[t].pending))
            /\ UNCHANGED ws_rooms
  /\ bc' = [bc EXCEPT ![t].pending = Tail(@)]
  /\ lock' = release(lock)
  /\ pc' = [pc EXCEPT ![t] = "bcast"]
  /\ UNCHANGED <<open, keyOf, nframes>>
  /\ UNCHANGED LockRest

\* the send loop is over: broadcast_* returns to its caller
LockFinish(t) ==
  /\ pc[t] = "bcast" /\ bc[t].pending = <<>>
  /\ HoldsLock(Bop(t)) => Granted(t)
  /\ lock' = IF HoldsLock(Bop(t)) THEN release(lock) ELSE lock
  /\ bc' = [bc EXCEPT ![t] = NoBc]
  /\ pc' = [pc EXCEPT ![t] = Cont(t)]
  /\ UNCHANGED <<open, keyOf, ws_by_user, ws_rooms, nframes>>
  /\ UNCHANGED LockRest

LockTasks == Sockets \cup Posts

\* what a task does by itself once it can: everything but the arrival of
\* connections, requests and frames and the closing of sockets
LockRun(t) ==
  \/ LockWake(t)
  \/ LockAdd(t)
  \/ LockDisconnect(t)
  \/ LockRemove(t)
  \/ LockSend(t)
  \/ LockBroadcastRemove(t)
  \/ LockFinish(t)

LockNext ==
  \/ \E t \in Sockets, key \in Users \cup Rooms : LockConnect(t, key)
  \/ \E t \in LockTasks, key \in Users \cup Rooms : LockBroadcast(t, key)
  \/ \E s \in Sockets : PeerClose(s)
  \/ \E t \in LockTasks : LockRun(t)

\* the event loop runs every task that is ready
LockSpec == LockInit /\ [][LockNext]_vars /\ \A t \in LockTasks : WF_vars(LockRun(t))

\* ---------------------------------------------------------- properties
Calls == 1..Len(bh)

\* copies of the payload of call b among the frames / events of a sequence
Count(seq, b) == Cardinality({i \in 1..Len(seq) : seq[i].bid = b})

\* copies of the payload of call b ever put on the queue of stream e
Enqueued(e, b) == Count(emitted[e] \o qitems[e], b)

\* every copy of the payload of call b in seq is the payload of the call
SamePayload(seq, b) == \A i \in 1..Len(seq) : seq[i].bid = b => seq[i] = bh[b].payload

CleanUserCall(b) == bh[b].kind = "user" /\ bh[b].done /\ bh[b].failed = {}

\* C1 (as stated): a broadcast_to_user call in which no send fails has
\* delivered the payload exactly once to every chat handle that was in
\* ws_by_user[u] and put it exactly once on every queue that was in
\* sse_queues[u] when the call was made, the same payload everywhere.
C1_AtCallTime ==
  \A b \in Calls : CleanUserCall(b) =>
    /\ \A ws \in bh[b].members : Count(sock[ws], b) = 1 /\ SamePayload(sock[ws], b)
    /\ \A e \in bh[b].qcall :
         Enqueued(e, b) = 1 /\ SamePayload(emitted[e] \o qitems[e], b)

\* C1 (amended): as C1, but the queues are those in sse_queues[u] when the
\* sends to the chat handles have finished, which is when the queue loop
\* takes its snapshot.
C1_FanOut ==
  \A b \in Calls : CleanUserCall(b) =>
    /\ \A ws \in bh[b].members : Count(sock[ws], b) = 1 /\ SamePayload(sock[ws], b)
    /\ \A e \in bh[b].qsnap :
         Enqueued(e, b) = 1 /\ SamePayload(emitted[e] \o qitems[e], b)

\* two chat handles and one push subscriber: three deliveries
C1_Witness ==
  \E b \in Calls :
    /\ CleanUserCall(b)
    /\ Cardinality(bh[b].members) = 2
    /\ Cardinality(bh[b].qsnap) = 1
    /\ \A ws \in bh[b].members : Count(sock[ws], b) = 1
    /\ \A e \in bh[b].qsnap : Enqueued(e, b) = 1

RoomCall(b) == bh[b].kind = "room" /\ bh[b].sender \in bh[b].members

\* C2 (as stated): a frame relayed for a registered sender A reaches every
\* other handle registered in the room and never A.  (Only the handles of
\* running handlers are looked at: a slot left behind by an ended handler
\* is the subject of C4.)
C2_EveryOther ==
  \A b \in Calls : RoomCall(b) =>
    /\ Count(sock[bh[b].sender], b) = 0
    /\ bh[b].done =>
         \A ws \in (bh[b].members \cap bh[b].live) \ {bh[b].sender} :
           Count(sock[ws], b) = 1

\* C2 (amended): the frame never reaches A, and it reaches exactly once
\* every other handle registered in the room when the relay started whose
\* send succeeds; a handle whose send fails gets nothing.
C2_RoomExclusion ==
  \A b \in Calls : RoomCall(b) =>
    /\ Count(sock[bh[b].sender], b) = 0
    /\ \A ws \in bh[b].failed : Count(sock[ws], b) = 0
    /\ bh[b].done =>
         \A ws \in bh[b].members \ ({bh[b].sender} \cup bh[b].failed) :
           Count(sock[ws], b) = 1

C2_Witness ==
  \E b \in Calls :
    /\ RoomCall(b) /\ bh[b].done
    /\ Cardinality(bh[b].members) = 3
    /\ \A ws \in bh[b].members \ {bh[b].sender} : Count(sock[ws], b) = 1
    /\ Count(sock[bh[b].sender], b) = 0

Registry(b) == IF bh[b].kind = "user" THEN ws_by_user ELSE ws_rooms

\* C3: in broadcast_to_user and broadcast_room a handle whose send fails is
\* out of its registry, the other handles of the snapshot (those whose own
\* send does not fail) still get the payload exactly once, and the call is
\* only ever left by returning to its caller, which goes on.
C3_SendFailure ==
  \A b \in Calls :
    /\ \A ws \in bh[b].failed :
         /\ ws \in bh[b].snap
         /\ ws \notin DictGet(Registry(b), bh[b].key, {})
         /\ Count(sock[ws], b) = 0
    /\ bh[b].done => \A ws \in bh[b].snap \ bh[b].failed : Count(sock[ws], b) = 1
    /\ ~bh[b].done => pc[bh[b].sender] = "bcast" /\ bc[bh[b].sender].bid = b
    /\ bh[b].done /\ bh[b].sender \in Posts => resp[bh[b].sender].ok

C3_Witness ==
  \E b \in Calls :
    /\ bh[b].done
    /\ bh[b].failed # {}
    /\ \E ws \in bh[b].snap \ bh[b].failed : Count(sock[ws], b) = 1

\* C4 (as stated): a chat or signaling handler that has ended holds no
\* registry slot.
C4_NoSlotAfterEnd ==
  /\ \A c \in ChatConns : pc[c] = "done" => c \notin DictGet(ws_by_user, keyOf[c], {})
  /\ \A s \in SigConns : pc[s] = "done" => s \notin DictGet(ws_rooms, keyOf[s], {})

\* C5 (as stated): once a push stream has terminated its queue is no
\* longer in sse_queues[user_id].
C5_Unsubscribed ==
  \A e \in Streams :
    pc[e] = "closed" => e \notin ListSet(DictGet(sse_queues, keyOf[e], <<>>))

\* C6 (as stated): the first data event of every push stream is sse_hello.
C6_HelloFirst ==
  \A e \in Streams : emitted[e] # <<>> => emitted[e][1].type = "sse_hello"

\* C7: the first frame written to a chat socket is ws_hello, carrying the
\* user_id and a timestamp, and the first frame written to a signaling
\* socket is signal_hello.
C7_GreetingFirst ==
  /\ \A c \in ChatConns : sock[c] # <<>> =>
       /\ sock[c][1].type = "ws_hello"
       /\ sock[c][1].data.v = keyOf[c]
       /\ sock[c][1].data.ts = utc_iso
  /\ \A s \in SigConns : sock[s] # <<>> =>
       /\ sock[s][1].type = "signal_hello"
       /\ sock[s][1].data.v = keyOf[s]

\* a socket whose greeting is followed by a broadcast frame
C7_Witness ==
  \E s \in Sockets : Len(sock[s]) >= 2 /\ sock[s][2].bid # 0

\* C8 (as stated): no inbound frame, whatever its content, ends the loop
\* of a chat or signaling connection.
C8_NoFrameFault ==
  \A s \in Sockets : ended[s] \notin {"fault", "merge"}

Echoes(c) == Cardinality({i \in 1..Len(sock[c]) : sock[c][i].type = "echo"})

CallsOf(c) == {b \in Calls : bh[b].sender = c}

\* C9 (as stated): every "message" frame that was echoed is broadcast with
\* broadcast_to_user, and a finished broadcast has reached exactly once
\* every chat handle whose send did not fail and every push queue of the
\* user.
C9_EchoThenBroadcast ==
  \A c \in ChatConns :
    /\ Echoes(c) = Cardinality(CallsOf(c)) + (IF pc[c] = "echoed" THEN 1 ELSE 0)
    /\ \A b \in CallsOf(c) : bh[b].done =>
         /\ \A ws \in bh[b].snap \ bh[b].failed : Count(sock[ws], b) = 1
         /\ \A e \in bh[b].qsnap : Enqueued(e, b) = 1

PingFrame == [shape |-> "object", type |-> "ping", data |-> NoData]

OthersUntouched(c) ==
  /\ \A s \in Sockets \ {c} : sock'[s] = sock[s]
  /\ qitems' = qitems
  /\ emitted' = emitted
  /\ MESSAGES' = MESSAGES
  /\ ws_rooms' = ws_rooms
  /\ sse_queues' = sse_queues
  /\ bh' = bh

\* C10 (as stated): a ping produces exactly one pong on the sender's
\* socket and nothing else; store and registries are unchanged.
C10_PingOnly ==
  [][\A c \in ChatConns : ChatRecv(c, PingFrame) =>
       /\ sock'[c] = Append(sock[c], Pong)
       /\ OthersUntouched(c)
       /\ ws_by_user' = ws_by_user]_vars

\* C10 (amended): a ping is answered with one pong send to the sender and
\* nothing else is sent, enqueued or stored; the registries are unchanged
\* unless that send fails, in which case only the sender's own handle is
\* unregistered.
C10_PingIsolation ==
  [][\A c \in ChatConns : ChatRecv(c, PingFrame) =>
       /\ OthersUntouched(c)
       /\ IF open[c]
            THEN /\ sock'[c] = Append(sock[c], Pong)
                 /\ ws_by_user' = ws_by_user
            ELSE /\ sock'[c] = sock[c]
                 /\ \A u \in Users :
                      DictGet(ws_by_user', u, {}) = DictGet(ws_by_user, u, {}) \ {c}]_vars

\* a pong on the socket of a handler that went on, next to another
\* recipient of the same user
C10_Witness ==
  \E c \in ChatConns :
    /\ pc[c] = "open"
    /\ \E i \in 1..Len(sock[c]) : sock[c][i].type = "pong"
    /\ \/ DictGet(ws_by_user, keyOf[c], {}) # {c}
       \/ DictGet(sse_queues, keyOf[c], <<>>) # <<>>

\* --------------------------------------------------- POST /api/message
PostCalls == {b \in Calls : bh[b].sender \in Posts}

\* the payload of call b has reached a chat handle or a push queue
Received(b) ==
  \/ \E ws \in Sockets : Count(sock[ws], b) > 0
  \/ \E e \in Streams : Enqueued(e, b) > 0

\* every message of a POST that has been received by anybody is in the
\* history of its user, unless a reset ran since the POST
StoredWhenReceived ==
  \A b \in PostCalls :
    Received(b) /\ bh[b].epoch = nreset =>
      \E i \in 1..Len(get_history(MESSAGES, bh[b].key)) :
        get_history(MESSAGES, bh[b].key)[i] = bh[b].payload.data

\* what a successful post_message has done when it first suspends or
\* returns: one message appended at the end of the user's sequence, the
\* call of broadcast_to_user with {type: "message", data: that message},
\* and the same message in the response
PostEffect(p, body) ==
  LET m == resp'[p].message
      u == m.user_id
      b == Len(bh')
  IN /\ u = Strip(body.user_id) /\ m.text = Strip(body.text)
     /\ body.role = NoRole => m.role = "user"
     /\ MESSAGES' = DictSet(MESSAGES, u, Append(DictGet(MESSAGES, u, <<>>), m))
     /\ b = Len(bh) + 1
     /\ bh'[b].kind = "user" /\ bh'[b].key = u
     /\ bh'[b].payload.type = "message" /\ bh'[b].payload.data = m

Rejected(body) == Strip(body.user_id) = "" \/ Strip(body.text) = ""

\* C12 (as stated): a POST whose user_id or text is missing or empty after
\* trimming is answered with the bad-request error "user_id and text are
\* required" and changes nothing: not the store, not a socket or queue,
\* not the registries.
C12_RejectedUntouched ==
  [][\A p \in Posts, body \in PostBodies :
       PostMessage(p, body) /\ Rejected(body) =>
         /\ ~resp'[p].ok
         /\ resp'[p].detail = "user_id and text are required"
         /\ MESSAGES' = MESSAGES
         /\ sock' = sock /\ qitems' = qitems /\ bh' = bh
         /\ ws_by_user' = ws_by_user /\ ws_rooms' = ws_rooms
         /\ sse_queues' = sse_queues]_vars

\* ---------------------------------------------------- GET /api/history
Min(a, b) == IF a < b THEN a ELSE b

\* C13: get_history returns the last min(n, 200) of the n messages
\* appended for the user since the last reset, in insertion order (the
\* k-th appended message has id k), and the empty sequence for a user
\* with no message.
C13_LastTwoHundred ==
  [][\A u \in Users : GetHistory(u) =>
       LET n == Len(DictGet(MESSAGES, u, <<>>))
           k == Min(n, 200)
       IN /\ hist'.user_id = u
          /\ Len(hist'.messages) = k
          /\ \A i \in 1..k : /\ hist'.messages[i].id = n - k + i
                             /\ hist'.messages[i].user_id = u]_vars

\* 202 messages appended: the history starts at the third
C13_Witness ==
  /\ Len(DictGet(MESSAGES, "alice", <<>>)) = 202
  /\ hist.user_id = "alice"
  /\ Len(hist.messages) = 200
  /\ hist.messages[1].id = 3 /\ hist.messages[200].id = 202

\* ------------------------------------------------------------ signaling
\* every relayed frame on a signaling socket is the payload of its
\* broadcast_room call, and that payload carries a timestamp
RelayedAsCalled ==
  \A ws \in SigConns : \A i \in 1..Len(sock[ws]) :
    sock[ws][i].bid # 0 =>
      /\ sock[ws][i] = bh[sock[ws][i].bid].payload
      /\ sock[ws][i].ts # ""

\* C14: the payload ws_signal passes to broadcast_room is the received
\* frame (as parsed) with its type and its other fields unchanged and
\* with a timestamp: the frame's own ts when it has one, the current time
\* when it has none; the room members get exactly that payload.
C14_TimestampKept ==
  [][/\ \A s \in SigConns, raw \in SigFrames :
          SigRecv(s, raw) /\ Len(bh') > Len(bh) =>
            LET f == SigParse(raw)
                p == bh'[Len(bh')].payload
            IN /\ p.type = f.type /\ p.data = f.data
               /\ f.ts = "" => p.ts = utc_iso
               /\ f.ts # "" => p.ts = f.ts
     /\ RelayedAsCalled']_vars

\* an offer without ts, relayed with the time stamped on it to a peer and
\* not to its sender
C14_Witness ==
  \E b \in Calls :
    /\ bh[b].kind = "room" /\ bh[b].payload.type = "offer"
    /\ bh[b].payload.ts = utc_iso
    /\ \E ws \in SigConns \ {bh[b].sender} :
         Count(sock[ws], b) = 1 /\ sock[ws][Len(sock[ws])] = bh[b].payload
    /\ Count(sock[bh[b].sender], b) = 0

\* -------------------------------------------------------- unregistering
\* ws is registered under some key of the registry d
In(d, ws) == \E k \in DOMAIN d : ws \in d[k]

\* C15: remove_ws_user / remove_ws_room for a handle that is not (or no
\* longer) registered changes nothing; a handler that ends after its
\* handle was already removed, by a failed broadcast send, leaves both
\* registries as they are; and a handle that has left its registry never
\* comes back, so it is removed at most once.
C15_IdempotentUnregister ==
  [][\A s \in Sockets :
       LET absent == ~In(ws_by_user, s) /\ ~In(ws_rooms, s)
       IN /\ absent =>
               /\ \A u \in Users : remove_ws_user(ws_by_user, u, s) = ws_by_user
               /\ \A r \in Rooms : remove_ws_room(ws_rooms, r, s) = ws_rooms
          /\ absent /\ pc[s] \notin {"idle", "done"} /\ pc'[s] = "done" =>
               ws_by_user' = ws_by_user /\ ws_rooms' = ws_rooms
          /\ absent /\ pc[s] # "idle" =>
               ~In(ws_by_user', s) /\ ~In(ws_rooms', s)]_vars

\* a handle removed by a failed broadcast send whose handler has then run
\* its own disconnect handling, next to another handle of the same key
C15_Witness ==
  \E s \in Sockets, b \in Calls :
    /\ s \in bh[b].failed
    /\ ended[s] = "disconnect"
    /\ DictGet(Registry(b), bh[b].key, {}) # {}

\* ---------------------------------------------------------------- reset
\* C16: dev_reset leaves the history of every user empty and touches
\* nothing of the Hub: the three registries hold the same handles and
\* queues as before, and the items waiting on the push queues (and the
\* frames already written) stay as they are.
C16_ResetOnlyStore ==
  [][nreset' # nreset =>
       /\ \A u \in Users : get_history(MESSAGES', u) = <<>>
       /\ DOMAIN MESSAGES' = {}
       /\ ws_by_user' = ws_by_user /\ ws_rooms' = ws_rooms
       /\ sse_queues' = sse_queues
       /\ qitems' = qitems /\ emitted' = emitted /\ sock' = sock
       /\ pc' = pc /\ open' = open /\ bc' = bc]_vars

\* after a reset of a store that held messages of two users: a chat
\* handle and a push queue still registered, an item still waiting
C16_Witness ==
  /\ nreset > 0 /\ MESSAGES = EmptyDict
  /\ \A p \in Posts : resp[p].ok
  /\ resp["p1"].message.user_id # resp["p2"].message.user_id
  /\ \E c \in ChatConns : In(ws_by_user, c) /\ pc[c] = "open"
  /\ \E e \in Streams : e \in ListSet(DictGet(sse_queues, keyOf[e], <<>>)) /\ qitems[e] # <<>>

\* ---------------------------------------------------------- append-only
IsPrefix(s, t) == Len(s) <= Len(t) /\ SubSeq(t, 1, Len(s)) = s

\* C17: in every step that is not a reset, each user's sequence after the
\* step starts with the sequence before it: nothing is deleted, reordered
\* or modified, also when POSTs for the same user interleave with
\* broadcasts in progress.
C17_AppendOnly ==
  [][nreset' = nreset =>
       \A u \in DOMAIN MESSAGES :
         u \in DOMAIN MESSAGES' /\ IsPrefix(MESSAGES[u], MESSAGES'[u])]_vars

\* two messages of one user, the second stored while the broadcast of the
\* first is still in progress
C17_Witness ==
  \E u \in Users :
    /\ Len(DictGet(MESSAGES, u, <<>>)) = 2
    /\ MESSAGES[u][1] = resp["p1"].message
    /\ MESSAGES[u][2] = resp["p2"].message
    /\ pc["p1"] = "bcast"

\* ------------------------------------------------------ fault isolation
Faults == {"fault", "merge", "send"}

\* the registrations of handle t are the same before and after the step
SameSlots(t) ==
  /\ \A u \in Users : t \in DictGet(ws_by_user, u, {}) <=> t \in DictGet(ws_by_user', u, {})
  /\ \A r \in Rooms : t \in DictGet(ws_rooms, r, {}) <=> t \in DictGet(ws_rooms', r, {})

\* a finished broadcast has reached, exactly once, every registered handle
\* of a running handler whose send did not fail (the sender of a relay
\* aside)
RunningAreServed ==
  \A b \in Calls : bh[b].done =>
    \A ws \in (bh[b].members \cap bh[b].live) \ bh[b].failed :
      (bh[b].kind = "room" /\ ws = bh[b].sender) \/ Count(sock[ws], b) = 1

\* C18: a fault raised in the receive loop of a chat or signaling
\* connection (a frame the handler cannot process, a failing send on its
\* own socket) ends that handler with its handle unregistered; in that
\* step every other connection keeps its position, its socket and its
\* registrations, and later broadcasts still reach the others.
C18_FaultConfined ==
  [][/\ \A s \in Sockets :
          ended[s] = "" /\ ended'[s] \in Faults =>
            /\ pc'[s] = "done"
            /\ ~In(ws_by_user', s) /\ ~In(ws_rooms', s)
            /\ \A t \in Sockets \ {s} :
                 pc'[t] = pc[t] /\ open'[t] = open[t] /\ SameSlots(t)
            /\ \A e \in Streams : pc'[e] = pc[e]
            /\ sse_queues' = sse_queues
     /\ RunningAreServed']_vars

\* the first chat handler ended by a fault, and a broadcast made after
\* that which reached the second chat handle of the user
C18_Witness ==
  \E c \in {"c1"}, d \in {"c2"}, b \in Calls :
    /\ keyOf[c] = keyOf[d]
    /\ ended[c] \in {"fault", "merge"}
    /\ c \notin bh[b].live /\ d \in bh[b].live
    /\ bh[b].done /\ Count(sock[d], b) = 1
    /\ pc[d] = "open" /\ In(ws_by_user, d)

\* ------------------------------------------------------- empty entries
\* C19 (as stated): no key of ws_by_user, ws_rooms or sse_queues maps to
\* an empty set or list.
C19_NoEmptyEntry ==
  /\ \A u \in DOMAIN ws_by_user : ws_by_user[u] # {}
  /\ \A r \in DOMAIN ws_rooms : ws_rooms[r] # {}
  /\ \A u \in DOMAIN sse_queues : sse_queues[u] # <<>>

\* ------------------------------------------------------ lock discipline
\* C20 (as stated): every registration and removal in ws_by_user, ws_rooms
\* and sse_queues is made holding Hub._lock, and every broadcast send is
\* made without it.
C20_LockedMutations ==
  \A a \in muts :
    /\ a.op \in {"add", "remove"} => a.lock
    /\ a.op = "send" => ~a.lock

\* ------------------------------------------------------------ no cross-over
\* C21: the payload of a broadcast_to_user(u, p) call is only ever on the
\* sockets of chat connections of user u and on the queues of push streams
\* of user u, and a frame relayed by broadcast_room(r, ...) only on the
\* sockets of signaling connections of room r; each of them was registered
\* under that key when the call was made (a queue: when it was served).
C21_NoCrossKey ==
  \A b \in Calls :
    /\ \A ws \in Sockets : Count(sock[ws], b) > 0 =>
         /\ keyOf[ws] = bh[b].key
         /\ ws \in (IF bh[b].kind = "user" THEN ChatConns ELSE SigConns)
         /\ ws \in bh[b].members
    /\ \A e \in Streams : Enqueued(e, b) > 0 =>
         /\ bh[b].kind = "user"
         /\ keyOf[e] = bh[b].key
         /\ e \in bh[b].qsnap

\* a message for one user on that user's socket, with a chat handle of
\* another user registered and untouched
C21_Witness ==
  \E b \in Calls, c \in ChatConns, d \in ChatConns :
    /\ bh[b].kind = "user" /\ bh[b].done
    /\ keyOf[c] = bh[b].key /\ Count(sock[c], b) = 1
    /\ keyOf[d] # "" /\ keyOf[d] # bh[b].key
    /\ d \in bh[b].live /\ In(ws_by_user, d)
    /\ Count(sock[d], b) = 0

\* ------------------------------------------------------ lock liveness
\* t has asked for the lock and not yet released it
Locking(t) == pc[t] \in {"add", "remove", "bremove"}

\* C22: the lock is only held between the acquire and the release of an
\* add_ws_* / remove_ws_* call, never by a task that is in receive_text or
\* in a send; nobody waits for a lock it holds itself; and every task
\* that asks for the lock gets it and gives it back.
C22_LockLive ==
  /\ [](\A t \in LockTasks :
          /\ lock.owner = t => Locking(t)
          /\ t \in ListSet(lock.waiters) => lock.owner # t /\ Locking(t))
  /\ \A t \in LockTasks : Locking(t) ~> ~Locking(t)

\* a broadcast holds the lock to remove a failed handle while a handler
\* waits for it for its own removal
C22_Witness ==
  \E t \in LockTasks, u \in Sockets :
    /\ pc[t] = "bremove" /\ lock.owner = t
    /\ pc[u] = "remove" /\ u \in ListSet(lock.waiters)

=============================================================================
